---- MODULE Spec2Model ----
(***************************************************************************)
(* HyperLogLog cardinality estimator of rust-version/hll_sqlite/src/main.rs *)
(* (struct HyperLogLog: new, hash, rho, add, count) driven the way          *)
(* process_sqlite_hll drives it: new(precision), add(word) per word, then   *)
(* count().                                                                 *)
(*                                                                          *)
(* Unsigned machine integers (u128, usize) are modelled as the set of the   *)
(* positions of their 1 bits, so that 128-bit shifts, masks, truncation and *)
(* leading_zeros are computed bit for bit.  f64 values are modelled as      *)
(* exact non-negative fractions n/d of such bit sets (no rounding); ln is a *)
(* table of natural logarithms rounded to 27 binary places.                 *)
(***************************************************************************)
EXTENDS Integers, Sequences, FiniteSets, TLC

\* ------------------------------------------------------------ bounds
\* most add calls of one run
MaxAdds == 3

\* ------------------------------------------------- machine constants
U128_BITS == 128
USIZE_BITS == 64
U8_MOD == 256

\* --------------------------------------------- bit-set big naturals
SetMin(S) == CHOOSE x \in S : \A y \in S : x <= y
SetMax(S) == 0 - SetMin({0 - x : x \in S})

RECURSIVE Bits(_)
\* the bit set of a small natural number
Bits(n) ==
    IF n = 0 THEN {}
    ELSE (IF n % 2 = 1 THEN {0} ELSE {}) \cup {b + 1 : b \in Bits(n \div 2)}

RECURSIVE Pow2(_)
Pow2(k) == IF k = 0 THEN 1 ELSE 2 * Pow2(k - 1)

RECURSIVE ToNat(_)
\* the number a (small) bit set stands for
ToNat(A) == IF A = {} THEN 0 ELSE LET b == SetMin(A) IN Pow2(b) + ToNat(A \ {b})

RECURSIVE BAdd(_, _)
BAdd(A, B) ==
    LET carry == A \cap B
    IN  IF carry = {} THEN A \cup B
        ELSE BAdd((A \cup B) \ carry, {b + 1 : b \in carry})

BShl(A, k) == {b + k : b \in A}

RECURSIVE BMulBy(_, _)
\* the sum of B << a over the bits a of A
BMulBy(A, B) ==
    IF A = {} THEN {}
    ELSE LET a == SetMin(A) IN BAdd(BShl(B, a), BMulBy(A \ {a}, B))
BMul(A, B) ==
    IF A = {} \/ B = {} THEN {}
    ELSE IF A = {0} THEN B
    ELSE IF B = {0} THEN A
    ELSE IF Cardinality(A) <= Cardinality(B) THEN BMulBy(A, B) ELSE BMulBy(B, A)

BLeq(A, B) == A = B \/ SetMax((A \ B) \cup (B \ A)) \in B
BLt(A, B) == A # B /\ BLeq(A, B)

\* ------------------------------------------------ u128 / usize ops
\* x >> k on a u128
shr(x, k) == {b - k : b \in {c \in x : c >= k}}
\* x << k on a u128 (bits shifted out are lost)
shl(x, k) == {b + k : b \in {c \in x : c + k < U128_BITS}}
\* x - 1 on a u128, x # 0
sub_one(x) == LET l == SetMin(x) IN (x \ {l}) \cup (0 .. l - 1)
\* u128::leading_zeros
leading_zeros(x) == IF x = {} THEN U128_BITS ELSE U128_BITS - 1 - SetMax(x)
\* `as usize`: truncation to the low 64 bits
as_usize(x) == {b \in x : b < USIZE_BITS}
\* u128::from_le_bytes: byte k (1-based) holds bits 8(k-1) .. 8(k-1)+7
from_le_bytes(bytes) ==
    UNION {{8 * (k - 1) + b : b \in Bits(bytes[k])} : k \in 1 .. Len(bytes)}

\* ------------------------------------------------------ the inputs
None == [none |-> TRUE]

\* precision arguments main may pass on (any u8 parses): small ones, and
\* ones at and beyond the widths of usize and u128
Precisions == {0, 1, 2, 3, 4, 64, 65, 128, 130}

Zero16 == [k \in 1 .. 16 |-> 0]

\* the words fed to add
Items == {"", "zero", "ones", "top", "low", "mid"}

\* md5::compute on Items.  The digest of "" is its MD5 digest; the other
\* words stand for inputs whose digests are the boundary cases (MD5 is used
\* only as a fixed function from strings to 16 bytes).
md5_compute(value) ==
    CASE value = ""     -> <<212, 29, 140, 217, 143, 0, 178, 4,
                             233, 128, 9, 152, 236, 248, 66, 126>>
      [] value = "zero" -> Zero16
      [] value = "ones" -> [k \in 1 .. 16 |-> 255]
      [] value = "top"  -> [Zero16 EXCEPT ![16] = 128]
      [] value = "low"  -> [Zero16 EXCEPT ![1] = 1]
      [] value = "mid"  -> [Zero16 EXCEPT ![16] = 144, ![9] = 1]

\* ------------------------------------------------------- HyperLogLog
Panic == [ok |-> FALSE]
Ok(v) == [ok |-> TRUE, value |-> v]

\* a slip: 2 * precision registers
new_times_two(precision, checks) ==
    IF checks /\ precision >= USIZE_BITS THEN Panic
    ELSE Ok([precision |-> precision,
             registers |-> [i \in 0 .. 2 * (precision % USIZE_BITS) - 1 |-> 0]])

\* HyperLogLog::new.  `1 << precision` is a usize shift: with overflow
\* checks a shift by 64 or more panics, without them the amount is masked.
new(precision, checks) ==
    IF checks /\ precision >= USIZE_BITS THEN Panic
    ELSE LET num_registers == Pow2(precision % USIZE_BITS)
         IN  Ok([precision |-> precision,
                 registers |-> [i \in 0 .. num_registers - 1 |-> 0]])

\* md5::compute(value).into() read by u128::from_le_bytes, tabulated
HashTable == [value \in Items |-> from_le_bytes(md5_compute(value))]
\* HyperLogLog::hash
hash(value) == HashTable[value]

\* HyperLogLog::rho
rho(w) == (leading_zeros(w) + 1) % U8_MOD

\* a slip: the register is overwritten by the new rank
max_overwrite(a, b) == b
\* a slip: the ranks are accumulated
max_accumulate(a, b) == a + b
max(a, b) == IF a >= b THEN a ELSE b

\* the u8 subtraction 128 - self.precision, wrapped
shift_amount(self) == (U128_BITS - self.precision) % U8_MOD
\* the locals j and w of add, with the shift amount masked to 7 bits
add_j(self, hash_value) ==
    as_usize(shr(hash_value, shift_amount(self) % U128_BITS))
add_w(self, hash_value) ==
    hash_value \cap sub_one(shl({0}, shift_amount(self) % U128_BITS))
\* the arithmetic overflows of add that panic under overflow checks:
\* 128 - precision below zero, and a shift of a u128 by 128 or more
add_overflows(self) ==
    self.precision > U128_BITS \/ shift_amount(self) >= U128_BITS
\* registers[j] is in bounds
in_bounds(self, j) == BLt(j, Bits(Cardinality(DOMAIN self.registers)))

\* HyperLogLog::add
add(self, value, checks) ==
    LET hash_value == hash(value)
        j == add_j(self, hash_value)
        w == add_w(self, hash_value)
    IN  IF checks /\ add_overflows(self) THEN Panic
        ELSE IF ~in_bounds(self, j) THEN Panic
        ELSE Ok([self EXCEPT !.registers[ToNat(j)] = max(@, rho(w))])

\* ---------------------------------------------------------------- f64
\* An f64 is modelled as the exact fraction n / d of two bit-set numbers.
F(k) == [n |-> Bits(k), d |-> {0}]
\* the decimal literal k / 10^e
Dec(k, e) == [n |-> Bits(k), d |-> Bits(10 ^ e)]
fadd(a, b) ==
    IF a.d = b.d THEN [n |-> BAdd(a.n, b.n), d |-> a.d]
    ELSE [n |-> BAdd(BMul(a.n, b.d), BMul(b.n, a.d)), d |-> BMul(a.d, b.d)]
fmul(a, b) == [n |-> BMul(a.n, b.n), d |-> BMul(a.d, b.d)]
fdiv(a, b) == [n |-> BMul(a.n, b.d), d |-> BMul(a.d, b.n)]
fle(a, b) == BLeq(BMul(a.n, b.d), BMul(b.n, a.d))
feq(a, b) == BMul(a.n, b.d) = BMul(b.n, a.d)
\* a slip: the sign of the exponent is dropped, 2f64.powi(b)
powi2pos(b) == [n |-> {b}, d |-> {0}]
\* 2f64.powi(-b): the single bit at position -b
powi2neg(b) == [n |-> {0 - b}, d |-> {0}]

\* natural logarithms of 1 .. 16, rounded to 27 binary places (units of 2^-27)
LnTable == <<0, 93032640, 147453245, 186065279, 216015100, 240485885,
             261175639, 279097919, 294906491, 309047740, 321840055, 333518525,
             344261675, 354208279, 363468345, 372130559>>
\* f64::ln of a quotient of two integers of 1 .. 16, numerator the larger
ln(q) == [n |-> Bits(LnTable[ToNat(q.n)] - LnTable[ToNat(q.d)]), d |-> {27}]

RECURSIVE sum_powi(_, _)
\* registers.iter().map(|&b| 2f64.powi(-(b as i32))).sum(), from index i on
sum_powi(registers, i) ==
    IF i \notin DOMAIN registers THEN F(0)
    ELSE fadd(powi2neg(registers[i]), sum_powi(registers, i + 1))

\* the f64 literals of count
LIT_0_7213 == Dec(7213, 4)
LIT_1_079 == Dec(1079, 3)
LIT_2_5 == Dec(25, 1)
LIT_1_0 == F(1)

\* the locals of count
count_m(self) == F(Cardinality(DOMAIN self.registers))
count_z(self) == fdiv(LIT_1_0, sum_powi(self.registers, 0))
count_estimate(self) ==
    LET m == count_m(self)
    IN  fmul(fmul(fmul(fdiv(LIT_0_7213, fadd(LIT_1_0, fdiv(LIT_1_079, m))),
                       m), m), count_z(self))
\* a slip: the registers that are not zero are counted
count_v_nonzero(self) ==
    Cardinality({i \in DOMAIN self.registers : self.registers[i] # 0})
count_v(self) == Cardinality({i \in DOMAIN self.registers : self.registers[i] = 0})

\* HyperLogLog::count
count(self) ==
    LET m == count_m(self)
        estimate_ == count_estimate(self)
    IN  IF fle(estimate_, fmul(LIT_2_5, m))
        THEN LET v == count_v(self)
             IN  IF v > 0 THEN fmul(m, ln(fdiv(m, F(v)))) ELSE estimate_
        ELSE estimate_

RECURSIVE run(_, _, _)
\* the loop of process_sqlite_hll: add each word in turn
run(self, words, checks) ==
    IF words = <<>> THEN Ok(self)
    ELSE LET r == add(self, Head(words), checks)
         IN  IF r.ok THEN run(r.value, Tail(words), checks) ELSE Panic

\* ------------------------------------------------------ the program
VARIABLES
    overflow_checks,  \* the build: TRUE with overflow checks (debug)
    precision_arg,    \* the precision main parsed
    status,           \* "start", "ready", "panicked", "done"
    hll,              \* the estimator, None before new returns
    log,              \* the words added so far, in order
    panic_at,         \* the call that panicked, or "none"
    estimate          \* what count() returned, None before

vars == <<overflow_checks, precision_arg, status, hll, log, panic_at, estimate>>

Init ==
    /\ overflow_checks \in BOOLEAN
    /\ precision_arg \in Precisions
    /\ status = "start"
    /\ hll = None
    /\ log = <<>>
    /\ panic_at = "none"
    /\ estimate = None

New ==
    /\ status = "start"
    /\ LET r == new(precision_arg, overflow_checks)
       IN  IF r.ok
           THEN /\ hll' = r.value
                /\ status' = "ready"
                /\ panic_at' = panic_at
           ELSE /\ hll' = hll
                /\ status' = "panicked"
                /\ panic_at' = "new"
    /\ UNCHANGED <<overflow_checks, precision_arg, log, estimate>>

Add(value) ==
    /\ status = "ready"
    /\ Len(log) < MaxAdds
    /\ LET r == add(hll, value, overflow_checks)
       IN  IF r.ok
           THEN /\ hll' = r.value
                /\ log' = Append(log, value)
                /\ status' = status
                /\ panic_at' = panic_at
           ELSE /\ hll' = hll
                /\ log' = log
                /\ status' = "panicked"
                /\ panic_at' = "add"
    /\ UNCHANGED <<overflow_checks, precision_arg, estimate>>

Count ==
    /\ status = "ready"
    /\ estimate' = count(hll)
    /\ status' = "done"
    /\ UNCHANGED <<overflow_checks, precision_arg, hll, log, panic_at>>

Next ==
    \/ New
    \/ \E value \in Items : Add(value)
    \/ Count

Spec == Init /\ [][Next]_vars

\* ------------------------------------------------------ properties
Constructed == hll # None
Regs == hll.registers
NumRegs == Cardinality(DOMAIN hll.registers)
\* the precisions for which 2^precision registers is what new allocates
ValidPrecision(p) == p \in 1 .. USIZE_BITS - 1
\* the estimator as it was before the last add
Before == run(new(precision_arg, overflow_checks).value,
              SubSeq(log, 1, Len(log) - 1), overflow_checks).value
LastWord == log[Len(log)]
\* leading zero bits of w inside a field of `width` bits
FieldLeadingZeros(w, width) == IF w = {} THEN width ELSE width - 1 - SetMax(w)
\* the residual and the index as the specification defines them
SpecW(h, p) == {b \in h : b < U128_BITS - p}
SpecJ(h, p) == shr(h, U128_BITS - p)
SpecRho(w, p) == FieldLeadingZeros(w, U128_BITS - p) + 1
Zeros(self) == {i \in DOMAIN self.registers : self.registers[i] = 0}
InLinearBranch(self) ==
    fle(count_estimate(self), fmul(LIT_2_5, count_m(self))) /\ Zeros(self) # {}
\* the sequences that are permutations of s
Perms(s) ==
    {[i \in 1 .. Len(s) |-> s[f[i]]] :
        f \in {g \in [1 .. Len(s) -> 1 .. Len(s)] :
                  \A i, k \in 1 .. Len(s) : g[i] = g[k] => i = k}}

\* C1: on an estimator of valid precision, the rank add stores for a word
\* is (leading zeros of the residual w inside its (128 - precision)-bit
\* field) + 1, and never exceeds (128 - precision) + 1.
C1_RankIsFieldRho ==
    (Constructed /\ ValidPrecision(hll.precision) /\ log # <<>>) =>
        LET w == add_w(Before, hash(LastWord))
        IN  /\ rho(w) = SpecRho(w, hll.precision)
            /\ rho(w) <= (U128_BITS - hll.precision) + 1

\* C2: new rejects precision 0 and every precision of 64 or more (2^64
\* registers and beyond): no estimator is returned for them.
C2_InvalidPrecisionRejected ==
    (status # "start" /\ ~ValidPrecision(precision_arg)) => ~Constructed

\* C3: on an estimator new has returned, a call of add does not fail: both
\* shifts by (128 - precision) are legal shifts of a u128, the index is in
\* bounds, and the divisor of count is not zero.
C3_AddAndCountNeverFail ==
    (Constructed /\ (log # <<>> \/ panic_at = "add")) =>
        /\ panic_at # "add"
        /\ ~add_overflows(hll)
        /\ sum_powi(Regs, 0).n # {}

\* C4: no step lowers a register (nor changes the number of registers).
C4_RegistersNeverDecrease ==
    [][Constructed =>
        /\ DOMAIN hll'.registers = DOMAIN hll.registers
        /\ \A i \in DOMAIN hll.registers :
              hll'.registers[i] >= hll.registers[i]]_vars
\* a register that was raised by one add is raised again by a later one
C4_Witness ==
    /\ status = "ready" /\ Len(log) >= 2
    /\ \E i \in DOMAIN Regs :
          0 < Before.registers[i] /\ Before.registers[i] < Regs[i]

\* C5: when a run has ended, adding its words in any other order to a fresh
\* estimator of the same precision completes and ends in the same estimator
\* state (hence the same estimate, which count computes from that state).
C5_OrderIndependence ==
    status = "done" =>
        /\ estimate = count(hll)
        /\ \A t \in Perms(log) :
              LET r == run(new(precision_arg, overflow_checks).value, t,
                           overflow_checks)
              IN  r.ok /\ r.value = hll
\* two different words were added that hit the same register with
\* different ranks, the higher rank first
C5_Witness ==
    /\ status = "done" /\ Len(log) = 2 /\ log[1] # log[2]
    /\ LET h1 == hash(log[1])
           h2 == hash(log[2])
       IN  /\ add_j(hll, h1) = add_j(hll, h2)
           /\ rho(add_w(hll, h1)) > rho(add_w(hll, h2))

\* C6: an add of a word that was added before changes no register and
\* leaves the estimate as it was.
C6_Idempotence ==
    [][(Constructed /\ log' # log /\ \E i \in 1 .. Len(log) : log[i] = log'[Len(log')])
        => /\ hll'.registers = hll.registers
           /\ count(hll') = count(hll)]_vars
\* a word was added a second time, after another word touched its register
C6_Witness ==
    /\ status = "ready" /\ Len(log) = 3
    /\ log[3] = log[1] /\ log[2] # log[1]
    /\ add_j(hll, hash(log[2])) = add_j(hll, hash(log[1]))
    /\ Regs[ToNat(add_j(hll, hash(log[1])))] > 0

\* C7: on an estimator of valid precision a completed add changes at most
\* the register at j = h >> (128 - precision), setting it to the maximum of
\* its value and the rank of the residual w = h & (2^(128-precision) - 1),
\* the rank counted inside the (128 - precision)-bit field; the other
\* registers, their number and precision stay.
C7_AddEffect ==
    [][(Constructed /\ ValidPrecision(hll.precision) /\ log' # log) =>
        LET h == hash(log'[Len(log')])
            p == hll.precision
            j == ToNat(SpecJ(h, p))
        IN  /\ hll'.precision = p
            /\ DOMAIN hll'.registers = DOMAIN hll.registers
            /\ \A i \in DOMAIN hll.registers : i # j =>
                  hll'.registers[i] = hll.registers[i]
            /\ hll'.registers[j] =
                  (IF hll.registers[j] >= SpecRho(SpecW(h, p), p)
                   THEN hll.registers[j] ELSE SpecRho(SpecW(h, p), p))]_vars
\* C7 with the rank as rho computes it: this part of the effect holds
C7_AddEffectWithRho ==
    [][(Constructed /\ ValidPrecision(hll.precision) /\ log' # log) =>
        LET h == hash(log'[Len(log')])
            p == hll.precision
            j == ToNat(SpecJ(h, p))
        IN  /\ hll'.precision = p
            /\ DOMAIN hll'.registers = DOMAIN hll.registers
            /\ \A i \in DOMAIN hll.registers : i # j =>
                  hll'.registers[i] = hll.registers[i]
            /\ hll'.registers[j] =
                  (IF hll.registers[j] >= rho(SpecW(h, p))
                   THEN hll.registers[j] ELSE rho(SpecW(h, p)))]_vars

\* alpha(m) and the raw estimate as the specification writes them
C8_Alpha(m) == fdiv(LIT_0_7213, fadd(LIT_1_0, fdiv(LIT_1_079, m)))
C8_Raw(self) ==
    LET m == F(Cardinality(DOMAIN self.registers))
    IN  fmul(fmul(C8_Alpha(m), fmul(m, m)), fdiv(F(1), sum_powi(self.registers, 0)))
\* C8: count returns m * ln(m / v) exactly when raw <= 2.5 * m and v > 0,
\* and raw = alpha(m) * m^2 / sum(2^-registers[i]) in every other case.
C8_BranchSelection ==
    Constructed =>
        LET m == F(NumRegs)
            v == Cardinality(Zeros(hll))
            raw == C8_Raw(hll)
            returned == IF status = "done" THEN estimate ELSE count(hll)
        IN  IF fle(raw, fmul(LIT_2_5, m)) /\ v > 0
            THEN /\ returned = fmul(m, ln(fdiv(m, F(v))))
                 /\ ~feq(returned, raw)
            ELSE returned = raw
\* count returned raw in the small range because no register is zero
C8_Witness ==
    /\ status = "done"
    /\ Zeros(hll) = {}
    /\ fle(C8_Raw(hll), fmul(LIT_2_5, F(NumRegs)))
    /\ estimate = C8_Raw(hll)

\* C9: new followed at once by count returns 0.0: the registers are all 0
\* (2^precision of them for a valid precision), raw <= 2.5 * m, v = m.
C9_EmptyEstimateIsZero ==
    (Constructed /\ log = <<>>) =>
        /\ \A i \in DOMAIN Regs : Regs[i] = 0
        /\ ValidPrecision(precision_arg) => NumRegs = Pow2(precision_arg)
        /\ fle(count_estimate(hll), fmul(LIT_2_5, F(NumRegs)))
        /\ Cardinality(Zeros(hll)) = NumRegs
        /\ count(hll).n = {}
        /\ status = "done" => feq(estimate, F(0))
C9_Witness ==
    status = "done" /\ log = <<>> /\ precision_arg = 4 /\ estimate.n = {}

\* C10: the estimate after an add is at least the estimate before it.
C10_EstimateMonotone ==
    [][(Constructed /\ status' # "panicked") =>
        /\ fle(count(hll), count(hll'))
        /\ hll'.registers = hll.registers => count(hll) = count(hll')]_vars
\* the last add took the last zero register and moved count from the
\* linear-counting branch to the raw branch
C10_Witness ==
    /\ status = "ready" /\ Len(log) >= 2
    /\ InLinearBranch(Before)
    /\ Zeros(hll) = {}
    /\ ~feq(count(Before), count(hll))
====
